---- MODULE Spec2Model ----
(***************************************************************************)
(* RepelBot (src/repel.py): the message cache and the activity tracker     *)
(* fed by on_message, the auto-repel handler, the /repel command, the      *)
(* message locator (get_user_messages) and the deletion pipeline           *)
(* (delete_messages_efficiently / delete_channel_messages).                *)
(*                                                                         *)
(* Three specifications share this module:                                 *)
(*   Spec     on_message and the auto-repel handler                        *)
(*   SpecLoc  the /repel command and get_user_messages, step by step       *)
(*   SpecDel  delete_messages_efficiently, step by step                    *)
(* Every await of the source is a point where another task may run, so a   *)
(* coroutine is cut into one action per await.                             *)
(***************************************************************************)
EXTENDS Integers, Sequences, FiniteSets, TLC

(***************************************************************************)
(* Bounds of the model.                                                    *)
(***************************************************************************)
\* inbound messages of one run
MaxMsgs == 4
\* the clock stops at MaxTime
MaxTime == 30
\* capacity of one channel's deque: max_cache_size is 500 in the source
\* (repel.py:30); the model runs the same deque with a small capacity
max_cache_size == 2

\* inbound messages of one run of SpecLoc
MaxPosts == 3
\* largest limit (messagecount) passed to get_user_messages
MaxLimit == 3
\* channels searched concurrently: batches of 5 in the source
\* (repel.py:149-150); the model runs the same loop with small batches
SearchBatch == 2

\* candidates handed to the second of two concurrent pipelines
MaxSecond == 2
\* ids resolved concurrently: batches of 10 in the source (repel.py:175)
FetchBatch == 2
\* messages of one bulk call: chunks of 100 in the source (repel.py:197)
BulkChunk == 2
\* concurrent individual deletions: batches of 5 in the source
\* (repel.py:231)
SingleBatch == 2
\* the collaborator stops failing a chunk's retry after this many
\* channel.delete_messages calls for it
MaxAttempts == 4

(***************************************************************************)
(* Program constants.                                                      *)
(***************************************************************************)
\* timedelta(seconds=30), repel.py:74
WINDOW_SECONDS == 30
\* unique_channels >= 3, repel.py:82
TRIGGER_CHANNELS == 3
\* timedelta(days=14), repel.py:191
BULK_DAYS == 14

\* channels 1..3 are text channels of guild 1, channel 4 is one of guild 2
Channels == 1..4
\* the human author of the runs of Spec; author 0 is flagged as a bot
Humans == {1}
\* the human authors of the runs of SpecLoc
Members == {1, 2}
BotAuthor == 0
Authors == Humans \cup {BotAuthor}
Guilds == {1, 2}
MsgIds == 1..MaxMsgs

\* message.guild of a message posted in channel c
GuildOf(c) == IF c <= 3 THEN 1 ELSE 2

\* the runs of SpecDel: message 5 is in channel 2, the others in channel 1
DelMsgs == 1..5
DelChannels == {1, 2}
Pipelines == {1, 2}
DelChannelOf(m) == IF m = 5 THEN 2 ELSE 1
\* the candidates a locator hands over: (channel, message_id) pairs
AllCandidates == [m \in DelMsgs |-> <<DelChannelOf(m), m>>]
\* ages in days of the messages when the pipeline looks at them: message
\* 5 is exactly 14 days old, message 4 is as old or from yesterday, the
\* others are from yesterday
AgeChoices == {[m \in DelMsgs |-> IF m >= k THEN 14 ELSE 1] : k \in {4, 5}}

\* list(guild.text_channels), repel.py:148
TextChannels(g) == IF g = 1 THEN <<1, 2, 3>> ELSE <<4>>

\* clock advances between events, and delivery lags of an inbound message
TickSteps == {15}
LagChoices == {0, 30}

VARIABLES
    now,            \* datetime.now(), in seconds
    next_id,        \* id of the next inbound message
    message_cache,  \* self.message_cache: dict in insertion order
    user_activity,  \* self.user_activity[user_id][guild_id]
    arrivals,       \* per channel, every non-bot message delivered so far
    hs,             \* one on_message coroutine per inbound message
    rp,             \* the /repel command coroutine and its two tasks
    loc,            \* the get_user_messages call of the command
    exists,         \* the messages on the server
    age,            \* the age in days of every message
    dp,             \* one delete_messages_efficiently call per pipeline
    dt              \* its delete_channel_messages coroutines, by channel

varsA == <<now, next_id, message_cache, user_activity, arrivals, hs>>

varsL == <<rp, loc>>

varsD == <<exists, age, dp, dt>>

vars == <<varsA, varsL, varsD>>

(***************************************************************************)
(* Helpers on sequences.                                                   *)
(***************************************************************************)
Range(s) == {s[i] : i \in 1..Len(s)}

Min(a, b) == IF a < b THEN a ELSE b

Max(a, b) == IF a > b THEN a ELSE b

\* s[from:] of Python, from counted from 0
DropFirst(s, n) == IF n >= Len(s) THEN <<>> ELSE SubSeq(s, n + 1, Len(s))

\* s[:n] of Python
TakeFirst(s, n) == IF n <= 0 THEN <<>> ELSE SubSeq(s, 1, Min(n, Len(s)))

\* the last n elements of s
LastN(s, n) == DropFirst(s, Len(s) - Min(n, Len(s)))

(***************************************************************************)
(* Message cache: dict channel_id -> deque(maxlen=max_cache_size).         *)
(***************************************************************************)
\* position of channel ch among the keys of the dict, 0 when absent
CacheIndex(cache, ch) ==
    IF \E i \in 1..Len(cache) : cache[i].ch = ch
    THEN CHOOSE i \in 1..Len(cache) : cache[i].ch = ch
    ELSE 0

\* a bounded buffer that makes room at the wrong end
DequeAppendDropNewest(dq, rec) ==
    IF Len(dq) >= max_cache_size
    THEN Append(SubSeq(dq, 1, Len(dq) - 1), rec)
    ELSE Append(dq, rec)

\* deque.append with maxlen: a full deque drops its leftmost entry
DequeAppend(dq, rec) ==
    IF Len(dq) >= max_cache_size
    THEN Append(Tail(dq), rec)
    ELSE Append(dq, rec)

\* repel.py:55-62
CacheAppend(cache, ch, rec) ==
    LET c1 == IF CacheIndex(cache, ch) = 0
              THEN Append(cache, [ch |-> ch, msgs |-> <<>>])
              ELSE cache
        i == CacheIndex(c1, ch)
    IN [c1 EXCEPT ![i].msgs = DequeAppend(c1[i].msgs, rec)]

(***************************************************************************)
(* Activity tracker and spam detector.                                     *)
(***************************************************************************)
\* a filter that keeps the entry that is exactly as old as the window
SelectSeqWindowInclusive(win, cutoff) == SelectSeq(win, LAMBDA e : e[2] >= cutoff)

\* the list comprehension of repel.py:75-78
SelectSeqWindow(win, cutoff) == SelectSeq(win, LAMBDA e : e[2] > cutoff)

\* repel.py:71-78: append, then keep the entries newer than the cutoff
Observe(win, ch, ts, t) ==
    SelectSeqWindow(Append(win, <<ch, ts>>), t - WINDOW_SECONDS)

\* repel.py:81
UniqueChannels(win) == Cardinality({win[i][1] : i \in 1..Len(win)})

\* a detector that counts the messages of the window, not its channels
ShouldTriggerOnCount(win) == Len(win) >= TRIGGER_CHANNELS

\* a clear that leaves the window as it is
ClearKeepsWindow(win) == win

\* self.user_activity[user_id][guild_id].clear(), repel.py:94
Clear(win) == <<>>

\* repel.py:82
ShouldTrigger(win) == UniqueChannels(win) >= TRIGGER_CHANNELS

(***************************************************************************)
(* Initial state: the state after RepelBot.__init__.                       *)
(***************************************************************************)
IdleHandler ==
    [pc |-> "idle", bot |-> FALSE, author |-> BotAuthor, channel |-> 1,
     triggered |-> FALSE,
     timeout |-> "none", located |-> FALSE, deleted |-> FALSE,
     resets |-> 0, reset_at |-> 0, summary |-> FALSE, sent |-> FALSE]

\* the coroutine has ended: its locals are gone, what it did is kept
Ended(h, pc) == [h EXCEPT !.pc = pc, !.author = BotAuthor, !.channel = 1]

IdleTask ==
    [pc |-> "idle", msg_ids |-> <<>>, i |-> 0, valid_messages |-> <<>>,
     recent |-> <<>>, old |-> <<>>, batch |-> <<>>, deleted |-> 0,
     attempts |-> 0, bulk_failed |-> FALSE, bulked |-> <<>>, j |-> 0,
     results |-> 0]

IdleRepel ==
    [pc |-> "idle", user |-> 1, messagecount |-> 0, timeout_task |-> "none",
     delete_task |-> "none", sent |-> FALSE]

IdleLocate ==
    [pc |-> "idle", user |-> 1, limit |-> 0, messages |-> <<>>,
     existing_ids |-> {}, remaining |-> 0, i |-> 0, tasks |-> <<>>,
     cached |-> 0, result |-> <<>>]

Init ==
    /\ now = 0
    /\ next_id = 1
    /\ message_cache = <<>>
    /\ user_activity = [k \in Humans \X Guilds |-> <<>>]
    /\ arrivals = [c \in Channels |-> <<>>]
    /\ hs = [h \in MsgIds |-> IdleHandler]
    /\ rp = IdleRepel
    /\ loc = IdleLocate
    /\ exists = DelMsgs
    /\ age = [m \in DelMsgs |-> 1]
    /\ dp = [p \in Pipelines |-> [pc |-> "idle", candidates |-> <<>>, total |-> 0]]
    /\ dt = [k \in Pipelines \X DelChannels |-> IdleTask]

(***************************************************************************)
(* The clock.                                                              *)
(***************************************************************************)
Tick ==
    /\ \E d \in TickSteps :
          /\ now + d <= MaxTime
          /\ now' = now + d
    /\ UNCHANGED <<next_id, message_cache, user_activity, arrivals, hs>>
    /\ UNCHANGED <<varsL, varsD>>

(***************************************************************************)
(* on_message, repel.py:49-105.  The code up to the first await (the       *)
(* timeout call) runs without interruption.                                *)
(***************************************************************************)
\* a handler that tests the bot flag after it has cached the message
on_message_bot_cached ==
    /\ next_id <= MaxMsgs
    /\ \E ch \in Channels :
          /\ message_cache' =
                CacheAppend(message_cache, ch,
                            [id |-> next_id, author_id |-> BotAuthor,
                             timestamp |-> now])
          /\ hs' = [hs EXCEPT ![next_id] =
                      [IdleHandler EXCEPT !.pc = "done", !.bot = TRUE]]
    /\ next_id' = next_id + 1
    /\ UNCHANGED <<now, user_activity, arrivals>>
    /\ UNCHANGED <<varsL, varsD>>

\* repel.py:51-52: a bot author returns at once; bot keeps that the message
\* of this handler had the flag
on_message_bot ==
    /\ next_id <= MaxMsgs
    /\ \E ch \in Channels :
          hs' = [hs EXCEPT ![next_id] =
                   [IdleHandler EXCEPT !.pc = "done", !.bot = TRUE]]
    /\ next_id' = next_id + 1
    /\ UNCHANGED <<now, message_cache, user_activity, arrivals>>
    /\ UNCHANGED <<varsL, varsD>>

\* repel.py:54-82 and, when the detector does not fire, 105
on_message ==
    /\ next_id <= MaxMsgs
    /\ \E ch \in Channels, a \in Humans, lag \in LagChoices :
          /\ lag <= now
          /\ LET ts == now - lag
                 rec == [id |-> next_id, author_id |-> a, timestamp |-> ts]
                 key == <<a, GuildOf(ch)>>
                 win == Observe(user_activity[key], ch, ts, now)
             IN /\ message_cache' = CacheAppend(message_cache, ch, rec)
                /\ arrivals' = [arrivals EXCEPT ![ch] = Append(@, rec)]
                /\ user_activity' = [user_activity EXCEPT ![key] = win]
                /\ hs' = [hs EXCEPT ![next_id] =
                            IF ShouldTrigger(win)
                            THEN [IdleHandler EXCEPT
                                    !.author = a, !.channel = ch,
                                    !.triggered = TRUE, !.pc = "timeout"]
                            ELSE [IdleHandler EXCEPT !.pc = "done"]]
    /\ next_id' = next_id + 1
    /\ UNCHANGED now
    /\ UNCHANGED <<varsL, varsD>>

\* repel.py:87 returns: message.author.timeout(...)
\*   ok         -> line 90 is awaited next
\*   forbidden  -> except discord.Forbidden: pass (102-103), then 105
\*   http       -> any other HTTPException leaves on_message
timeout_return(h) ==
    /\ hs[h].pc = "timeout"
    /\ \E r \in {"ok", "forbidden", "http"} :
          hs' = [hs EXCEPT ![h] =
                    CASE r = "ok" -> [@ EXCEPT !.timeout = r, !.pc = "locate"]
                      [] r = "forbidden" -> Ended([@ EXCEPT !.timeout = r], "done")
                      [] OTHER -> Ended([@ EXCEPT !.timeout = r], "crashed")]
    /\ UNCHANGED <<now, next_id, message_cache, user_activity, arrivals>>
    /\ UNCHANGED <<varsL, varsD>>

\* repel.py:90 returns: get_user_messages reads the cache and the channel
\* histories; an HTTPException other than Forbidden of channel.history
\* is not caught (143) and leaves on_message
locate_return(h) ==
    /\ hs[h].pc = "locate"
    /\ \E r \in {"ok", "http"} :
          hs' = [hs EXCEPT ![h] =
                    IF r = "ok"
                    THEN [@ EXCEPT !.located = TRUE, !.pc = "delete"]
                    ELSE Ended(@, "crashed")]
    /\ UNCHANGED <<now, next_id, message_cache, user_activity, arrivals>>
    /\ UNCHANGED <<varsL, varsD>>

\* repel.py:91 returns, then 94 clears the window as it is now, then 98
\* is awaited; reset_at keeps the id of the first message after the clear
delete_return(h) ==
    /\ hs[h].pc = "delete"
    /\ user_activity' =
          [user_activity EXCEPT ![<<hs[h].author, GuildOf(hs[h].channel)>>] = Clear(@)]
    /\ hs' = [hs EXCEPT ![h].deleted = TRUE,
                        ![h].resets = @ + 1,
                        ![h].reset_at = next_id,
                        ![h].summary = TRUE,
                        ![h].pc = "send"]
    /\ UNCHANGED <<now, next_id, message_cache, arrivals>>
    /\ UNCHANGED <<varsL, varsD>>

\* repel.py:98-101 returns: message.channel.send(...), then 105
send_return(h) ==
    /\ hs[h].pc = "send"
    /\ \E r \in {"ok", "forbidden", "http"} :
          hs' = [hs EXCEPT ![h] =
                    Ended([@ EXCEPT !.sent = (r = "ok")],
                          IF r = "http" THEN "crashed" ELSE "done")]
    /\ UNCHANGED <<now, next_id, message_cache, user_activity, arrivals>>
    /\ UNCHANGED <<varsL, varsD>>

Next ==
    \/ Tick
    \/ on_message_bot
    \/ on_message
    \/ \E h \in MsgIds : timeout_return(h)
    \/ \E h \in MsgIds : locate_return(h)
    \/ \E h \in MsgIds : delete_return(h)
    \/ \E h \in MsgIds : send_return(h)

Spec == Init /\ [][Next]_vars

(***************************************************************************)
(* The message locator, get_user_messages, repel.py:107-166, called by     *)
(* the /repel command, repel.py:264-337.                                   *)
(***************************************************************************)
Reverse(s) == [k \in 1..Len(s) |-> s[Len(s) + 1 - k]]

\* a cache phase that takes the messages of every author
RECURSIVE CachedOfAnyone(_, _, _)
CachedOfAnyone(cache, guild, user) ==
    IF cache = <<>> THEN <<>>
    ELSE LET e == Head(cache)
             here == IF GuildOf(e.ch) = guild
                     THEN [k \in 1..Len(e.msgs) |-> <<e.ch, e.msgs[k].id>>]
                     ELSE <<>>
         IN here \o CachedOfAnyone(Tail(cache), guild, user)

\* the messages of the cache that the loops of repel.py:114-118 visit and
\* keep, in the order they visit them: every channel of the guild in the
\* order of the dict, and in it every message of the user
RECURSIVE CachedOfUser(_, _, _)
CachedOfUser(cache, guild, user) ==
    IF cache = <<>> THEN <<>>
    ELSE LET e == Head(cache)
             mine == SelectSeq(e.msgs, LAMBDA m : m.author_id = user)
             here == IF GuildOf(e.ch) = guild
                     THEN [k \in 1..Len(mine) |-> <<e.ch, mine[k].id>>]
                     ELSE <<>>
         IN here \o CachedOfUser(Tail(cache), guild, user)

\* repel.py:119-122: append, and return as soon as the limit is reached
RECURSIVE CacheLoop(_, _, _)
CacheLoop(cands, acc, limit) ==
    IF cands = <<>> THEN [messages |-> acc, returned |-> FALSE]
    ELSE LET acc2 == Append(acc, Head(cands))
         IN IF Len(acc2) >= limit
            THEN [messages |-> acc2, returned |-> TRUE]
            ELSE CacheLoop(Tail(cands), acc2, limit)

\* repel.py:136
SearchLimit(remaining) == Max(remaining * 5, 100)

\* channel.history(limit=n): the newest n messages, newest first
History(ch, n) == TakeFirst(Reverse(arrivals[ch]), n)

\* a search that takes every message of the user, seen or not
UnseenAlways(id, ids) == TRUE

\* repel.py:138: message.id not in existing_ids
Unseen(id, ids) == id \notin ids

\* batch = all_channels[i:i+5], repel.py:150
BatchOf(channels, i) == TakeFirst(DropFirst(channels, i), SearchBatch)

\* repel.py:151-152 and 130-137: one search_channel task per channel of the
\* batch; gather starts them one after the other, and each runs up to its
\* first await: without read_message_history it returns [], otherwise it
\* requests the history.  readable are the channels the bot may read.
NewTasks(channels, i, readable) ==
    LET batch == BatchOf(channels, i)
    IN [k \in 1..Len(batch) |->
           [ch |-> batch[k],
            pc |-> IF batch[k] \in readable THEN "iter" ELSE "done",
            found |-> <<>>]]

\* repel.py:155-158: extend by each result in turn, stop at the limit
RECURSIVE ExtendUntil(_, _, _)
ExtendUntil(messages, results, limit) ==
    IF results = <<>> THEN messages
    ELSE LET m2 == messages \o Head(results)
         IN IF Len(m2) >= limit THEN m2
            ELSE ExtendUntil(m2, Tail(results), limit)

\* on_message as far as the cache goes (repel.py:49-62), for the authors
\* of SpecLoc; the channel histories get the message too
record ==
    /\ next_id <= MaxPosts
    /\ rp.pc = "idle"
    /\ \E ch \in Channels, a \in Members :
          LET rec == [id |-> next_id, author_id |-> a, timestamp |-> now]
          IN /\ message_cache' = CacheAppend(message_cache, ch, rec)
             /\ arrivals' = [arrivals EXCEPT ![ch] = Append(@, rec)]
    /\ next_id' = next_id + 1
    /\ UNCHANGED <<now, user_activity, hs, varsL>>
    /\ UNCHANGED varsD

\* repel.py:269-301: the server and permission checks answer and return,
\* or the interaction is deferred
repel ==
    /\ rp.pc = "idle"
    /\ \E u \in Members, n \in 0..MaxLimit, permitted \in BOOLEAN :
          rp' = [rp EXCEPT !.user = u, !.messagecount = n,
                           !.pc = IF permitted THEN "defer" ELSE "rejected"]
    /\ UNCHANGED <<now, next_id, message_cache, user_activity, arrivals, hs, loc>>
    /\ UNCHANGED varsD

\* repel.py:301 returns, 317-320: both tasks are created, gather is awaited
repel_defer_return ==
    /\ rp.pc = "defer"
    /\ rp' = [rp EXCEPT !.pc = "gather",
                        !.timeout_task = "running",
                        !.delete_task = "locate"]
    /\ UNCHANGED <<now, next_id, message_cache, user_activity, arrivals, hs, loc>>
    /\ UNCHANGED varsD

\* timeout_user, repel.py:304-310: Forbidden and HTTPException give False
timeout_user ==
    /\ rp.timeout_task = "running"
    /\ \E r \in {"ok", "forbidden", "http"} :
          rp' = [rp EXCEPT !.timeout_task = IF r = "ok" THEN "true" ELSE "false"]
    /\ UNCHANGED <<now, next_id, message_cache, user_activity, arrivals, hs, loc>>
    /\ UNCHANGED varsD

\* get_user_messages returns to delete_user_messages (repel.py:313), which
\* goes on to await delete_messages_efficiently (314)
Returned(l, messages) ==
    [l EXCEPT !.pc = "returned", !.result = messages, !.tasks = <<>>,
              !.messages = <<>>, !.existing_ids = {}]

\* repel.py:110-152, up to the first await: the cache phase, then either a
\* return or the first batch of searches
get_user_messages ==
    /\ rp.delete_task = "locate"
    /\ loc.pc = "idle"
    /\ LET guild == 1
           limit == rp.messagecount
           cp == CacheLoop(CachedOfUser(message_cache, guild, rp.user), <<>>, limit)
           l0 == [loc EXCEPT !.user = rp.user, !.limit = limit,
                             !.messages = cp.messages,
                             !.cached = Len(cp.messages),
                             !.existing_ids = {cp.messages[k][2] :
                                                 k \in 1..Len(cp.messages)}]
       IN IF cp.returned
          THEN /\ loc' = Returned(l0, cp.messages)
               /\ rp' = [rp EXCEPT !.delete_task = "delete"]
          ELSE IF Len(cp.messages) < limit /\ TextChannels(guild) # <<>>
          THEN /\ \E readable \in SUBSET Range(BatchOf(TextChannels(guild), 0)) :
                     loc' = [l0 EXCEPT
                               !.pc = "gather",
                               !.remaining = limit - Len(cp.messages),
                               !.i = 0,
                               !.tasks = NewTasks(TextChannels(guild), 0, readable)]
               /\ UNCHANGED rp
          ELSE /\ loc' = Returned(l0, TakeFirst(cp.messages, limit))
               /\ rp' = [rp EXCEPT !.delete_task = "delete"]
    /\ UNCHANGED <<now, next_id, message_cache, user_activity, arrivals, hs>>
    /\ UNCHANGED varsD

\* repel.py:138-142 over the messages of one page of the history
RECURSIVE SearchPage(_, _, _, _, _, _)
SearchPage(hist, ch, user, remaining, found, ids) ==
    IF hist = <<>> THEN [found |-> found, ids |-> ids]
    ELSE LET message == Head(hist)
         IN IF message.author_id = user /\ Unseen(message.id, ids)
            THEN LET found2 == Append(found, <<ch, message.id>>)
                     ids2 == ids \cup {message.id}
                 IN IF Len(found2) >= remaining
                    THEN [found |-> found2, ids |-> ids2]
                    ELSE SearchPage(Tail(hist), ch, user, remaining, found2, ids2)
            ELSE SearchPage(Tail(hist), ch, user, remaining, found, ids)

\* search_channel, repel.py:137-145: the request of the history answers.
\* Forbidden is caught and gives [], any other HTTPException leaves the
\* search.  A history of up to 100 messages comes in one page, and the
\* loop runs over a page without giving up control.
search_channel_step(t) ==
    /\ loc.pc = "gather"
    /\ t \in 1..Len(loc.tasks)
    /\ loc.tasks[t].pc = "iter"
    /\ LET task == loc.tasks[t]
           hist == History(task.ch, SearchLimit(loc.remaining))
           page == SearchPage(hist, task.ch, loc.user, loc.remaining,
                              <<>>, loc.existing_ids)
       IN \E r \in {"ok", "forbidden", "http"} :
             loc' = CASE r = "ok" ->
                           [loc EXCEPT !.existing_ids = page.ids,
                                       !.tasks[t].found = page.found,
                                       !.tasks[t].pc = "done"]
                      [] r = "forbidden" -> [loc EXCEPT !.tasks[t].pc = "done"]
                      [] OTHER -> [loc EXCEPT !.tasks[t].pc = "raised"]
    /\ UNCHANGED <<now, next_id, message_cache, user_activity, arrivals, hs, rp>>
    /\ UNCHANGED varsD

\* repel.py:152: gather raises what a search raised; get_user_messages and
\* delete_user_messages do not catch it
gather_raise ==
    /\ loc.pc = "gather"
    /\ \E t \in 1..Len(loc.tasks) : loc.tasks[t].pc = "raised"
    /\ loc' = [loc EXCEPT !.pc = "raised", !.tasks = <<>>]
    /\ rp' = [rp EXCEPT !.delete_task = "raised"]
    /\ UNCHANGED <<now, next_id, message_cache, user_activity, arrivals, hs>>
    /\ UNCHANGED varsD

\* repel.py:152-166: gather returns the results of the batch; they are
\* collected, and the next batch starts (after the sleep of 164) or the
\* function returns messages[:limit]
gather_return ==
    /\ loc.pc = "gather"
    /\ \A t \in 1..Len(loc.tasks) : loc.tasks[t].pc = "done"
    /\ LET results == [t \in 1..Len(loc.tasks) |-> loc.tasks[t].found]
           messages == ExtendUntil(loc.messages, results, loc.limit)
           channels == TextChannels(1)
       IN IF Len(messages) >= loc.limit \/ loc.i + SearchBatch >= Len(channels)
          THEN /\ loc' = Returned([loc EXCEPT !.messages = messages],
                                  TakeFirst(messages, loc.limit))
               /\ rp' = [rp EXCEPT !.delete_task = "delete"]
          ELSE /\ \E readable \in SUBSET Range(BatchOf(channels, loc.i + SearchBatch)) :
                     loc' = [loc EXCEPT
                               !.messages = messages,
                               !.i = @ + SearchBatch,
                               !.tasks = NewTasks(channels, loc.i + SearchBatch,
                                                  readable)]
               /\ UNCHANGED rp
    /\ UNCHANGED <<now, next_id, message_cache, user_activity, arrivals, hs>>
    /\ UNCHANGED varsD

\* delete_user_messages, repel.py:314: delete_messages_efficiently returns
delete_user_messages_return ==
    /\ rp.delete_task = "delete"
    /\ rp' = [rp EXCEPT !.delete_task = "done"]
    /\ UNCHANGED <<now, next_id, message_cache, user_activity, arrivals, hs, loc>>
    /\ UNCHANGED varsD

\* repel.py:320: gather raises the exception of delete_task
repel_gather_raise ==
    /\ rp.pc = "gather"
    /\ rp.delete_task = "raised"
    /\ rp' = [rp EXCEPT !.pc = "crashed"]
    /\ UNCHANGED <<now, next_id, message_cache, user_activity, arrivals, hs, loc>>
    /\ UNCHANGED varsD

\* repel.py:320-333: gather returns once both tasks are done; the response
\* is built and followup.send is awaited
repel_gather_return ==
    /\ rp.pc = "gather"
    /\ rp.timeout_task \in {"true", "false"}
    /\ rp.delete_task = "done"
    /\ rp' = [rp EXCEPT !.pc = "followup"]
    /\ UNCHANGED <<now, next_id, message_cache, user_activity, arrivals, hs, loc>>
    /\ UNCHANGED varsD

\* repel.py:332-337: followup.send returns, or raises NotFound and
\* channel.send is awaited instead
repel_followup_return ==
    /\ rp.pc \in {"followup", "fallback"}
    /\ \E r \in {"ok", "notfound"} :
          rp' = [rp EXCEPT !.sent = (r = "ok"),
                           !.pc = CASE r = "ok" -> "done"
                                    [] rp.pc = "followup" -> "fallback"
                                    [] OTHER -> "crashed"]
    /\ UNCHANGED <<now, next_id, message_cache, user_activity, arrivals, hs, loc>>
    /\ UNCHANGED varsD

NextLoc ==
    \/ record
    \/ repel
    \/ repel_defer_return
    \/ timeout_user
    \/ get_user_messages
    \/ \E t \in 1..SearchBatch : search_channel_step(t)
    \/ gather_raise
    \/ gather_return
    \/ delete_user_messages_return
    \/ repel_gather_raise
    \/ repel_gather_return
    \/ repel_followup_return

SpecLoc == Init /\ [][NextLoc]_vars

(***************************************************************************)
(* The deletion pipeline, delete_messages_efficiently and                  *)
(* delete_channel_messages, repel.py:168-254.  Pipelines run concurrently  *)
(* (an auto-repel and a /repel of the same user, say) against the same     *)
(* server, whose messages are the set exists.                              *)
(***************************************************************************)
\* created_at > cutoff, repel.py:191-192, with ages in whole days
IsRecent(m) == (0 - age[m]) > (0 - BULK_DAYS)

\* repel.py:192-193
RecentOf(valid) == SelectSeq(valid, IsRecent)

OldOf(valid) == SelectSeq(valid, LAMBDA m : ~IsRecent(m))

\* repel.py:243-245: the message ids of the candidates of channel ch
GroupOf(cands, ch) ==
    LET mine == SelectSeq(cands, LAMBDA c : c[1] = ch)
    IN [k \in 1..Len(mine) |-> mine[k][2]]

\* a bulk delete that leaves the deleted chunk at the head of the list
RestAfterBulkStuck(recent) == recent

\* recent = recent[100:], repel.py:201, 208 and 215
RestAfterBulk(recent) == DropFirst(recent, BulkChunk)

\* a loop that makes a bulk call for a single message too
BulkAlways(recent) == Len(recent) >= 1

\* while len(recent) >= 2, repel.py:196
BulkWorthwhile(recent) == Len(recent) >= 2

\* the coroutine returned: its locals are gone, its result is kept
TaskDone(t) == [IdleTask EXCEPT !.pc = "done", !.deleted = t.deleted]

\* repel.py:196-221, from the test of the while loop to the next await: the
\* next chunk goes to channel.delete_messages, or the rest goes to
\* individual deletion, or the function returns
LoopHead(t) ==
    IF BulkWorthwhile(t.recent)
    THEN [t EXCEPT !.pc = "bulk",
                   !.batch = TakeFirst(t.recent, BulkChunk),
                   !.attempts = @ + 1]
    ELSE LET old == t.old \o t.recent
         IN IF old = <<>>
            THEN TaskDone(t)
            ELSE [t EXCEPT !.pc = "single", !.old = old, !.recent = <<>>,
                           !.batch = <<>>, !.j = 0, !.results = 0]

\* repel.py:187-193, after the last fetch
AfterFetch(t) ==
    IF t.valid_messages = <<>>
    THEN TaskDone(t)
    ELSE LoopHead([t EXCEPT !.pc = "loop",
                            !.recent = RecentOf(t.valid_messages),
                            !.old = OldOf(t.valid_messages)])

\* repel.py:171-178, the start of delete_channel_messages up to its first
\* await
StartTask(msg_ids) ==
    IF msg_ids = <<>>
    THEN AfterFetch(IdleTask)
    ELSE [IdleTask EXCEPT !.pc = "fetch", !.msg_ids = msg_ids]

\* delete_messages_efficiently, repel.py:240-253: the candidates are
\* grouped by channel and one delete_channel_messages starts per group
delete_messages_efficiently(p) ==
    /\ dp[p].pc = "idle"
    /\ \E n \in 0..(IF p = 1 THEN Len(AllCandidates) ELSE MaxSecond) :
          LET cands == TakeFirst(AllCandidates, n)
          IN /\ dp' = [dp EXCEPT ![p] = [pc |-> "gather", candidates |-> cands,
                                         total |-> 0]]
             /\ dt' = [k \in DOMAIN dt |->
                         IF k[1] = p /\ GroupOf(cands, k[2]) # <<>>
                         THEN StartTask(GroupOf(cands, k[2]))
                         ELSE dt[k]]
    /\ UNCHANGED <<exists, age>>
    /\ UNCHANGED <<varsA, varsL>>

\* repel.py:175-185: the fetches of one batch answer; a message that is
\* gone is not found, and any fetch may fail
fetch_batch(p, ch) ==
    LET t == dt[<<p, ch>>]
        batch_ids == TakeFirst(DropFirst(t.msg_ids, t.i), FetchBatch)
    IN /\ t.pc = "fetch"
       /\ \E ok \in SUBSET (Range(batch_ids) \cap exists) :
             LET fetched == SelectSeq(batch_ids, LAMBDA m : m \in ok)
                 t2 == [t EXCEPT !.valid_messages = @ \o fetched,
                                 !.i = @ + FetchBatch]
             IN dt' = [dt EXCEPT ![<<p, ch>>] =
                         IF t2.i < Len(t.msg_ids) THEN t2 ELSE AfterFetch(t2)]
       /\ UNCHANGED <<exists, age, dp>>
       /\ UNCHANGED <<varsA, varsL>>
    /\ UNCHANGED <<varsA, varsL>>

\* repel.py:199-204 and 212-215: the first channel.delete_messages(batch)
\* of an iteration answers; bulk_failed keeps that a call failed, bulked
\* the messages of the calls that succeeded
bulk_return(p, ch) ==
    LET t == dt[<<p, ch>>]
    IN /\ t.pc = "bulk"
       /\ \/ /\ exists' = exists \ Range(t.batch)
             /\ dt' = [dt EXCEPT ![<<p, ch>>] =
                         LoopHead([t EXCEPT !.deleted = @ + Len(t.batch),
                                            !.recent = RestAfterBulk(@),
                                            !.bulked = @ \o t.batch,
                                            !.attempts = 0])]
          \/ /\ dt' = [dt EXCEPT ![<<p, ch>>] =
                         [t EXCEPT !.pc = "retry", !.attempts = @ + 1,
                                   !.bulk_failed = TRUE]]
             /\ UNCHANGED exists
          \/ /\ dt' = [dt EXCEPT ![<<p, ch>>] =
                         LoopHead([t EXCEPT !.old = @ \o t.batch,
                                            !.recent = RestAfterBulk(@),
                                            !.attempts = 0,
                                            !.bulk_failed = TRUE])]
             /\ UNCHANGED exists
       /\ UNCHANGED <<age, dp>>
       /\ UNCHANGED <<varsA, varsL>>
    /\ UNCHANGED <<varsA, varsL>>

\* repel.py:205-211: the retry after the sleep answers; when it fails the
\* batch goes to old and recent is left as it is
retry_return(p, ch) ==
    LET t == dt[<<p, ch>>]
    IN /\ t.pc = "retry"
       /\ \/ /\ exists' = exists \ Range(t.batch)
             /\ dt' = [dt EXCEPT ![<<p, ch>>] =
                         LoopHead([t EXCEPT !.deleted = @ + Len(t.batch),
                                            !.recent = RestAfterBulk(@),
                                            !.bulked = @ \o t.batch,
                                            !.attempts = 0])]
          \/ /\ t.attempts < MaxAttempts
             /\ dt' = [dt EXCEPT ![<<p, ch>>] =
                         LoopHead([t EXCEPT !.old = @ \o t.batch])]
             /\ UNCHANGED exists
       /\ UNCHANGED <<age, dp>>
       /\ UNCHANGED <<varsA, varsL>>
    /\ UNCHANGED <<varsA, varsL>>

\* delete_single, repel.py:223-228, and the loop of 231-236 around it: one
\* msg.delete() answers; a message that is gone is not found; deleted
\* grows by the sum of a batch of results once the batch is through
delete_single(p, ch) ==
    LET t == dt[<<p, ch>>]
        msg == t.old[t.j + 1]
    IN /\ t.pc = "single"
       /\ \E r \in {0, 1} :
             /\ (r = 1) => (msg \in exists)
             /\ exists' = IF r = 1 THEN exists \ {msg} ELSE exists
             /\ LET j == t.j + 1
                    results == t.results + r
                IN dt' = [dt EXCEPT ![<<p, ch>>] =
                            IF j = Len(t.old)
                            THEN TaskDone([t EXCEPT !.deleted = @ + results])
                            ELSE IF j % SingleBatch = 0
                            THEN [t EXCEPT !.j = j, !.results = 0,
                                           !.deleted = @ + results]
                            ELSE [t EXCEPT !.j = j, !.results = results]]
       /\ UNCHANGED <<age, dp>>
       /\ UNCHANGED <<varsA, varsL>>
    /\ UNCHANGED <<varsA, varsL>>

\* repel.py:253-254: gather returns once every delete_channel_messages of
\* the pipeline has returned; the results are summed
RECURSIVE SumDeleted(_, _)
SumDeleted(p, chs) ==
    IF chs = {} THEN 0
    ELSE LET ch == CHOOSE c \in chs : TRUE
         IN dt[<<p, ch>>].deleted + SumDeleted(p, chs \ {ch})

pipeline_return(p) ==
    /\ dp[p].pc = "gather"
    /\ \A ch \in DelChannels : dt[<<p, ch>>].pc \in {"idle", "done"}
    /\ dp' = [dp EXCEPT ![p].pc = "done", ![p].total = SumDeleted(p, DelChannels)]
    /\ UNCHANGED <<exists, age, dt>>
    /\ UNCHANGED <<varsA, varsL>>

NextDel ==
    \/ \E p \in Pipelines : delete_messages_efficiently(p)
    \/ \E p \in Pipelines, ch \in DelChannels : fetch_batch(p, ch)
    \/ \E p \in Pipelines, ch \in DelChannels : bulk_return(p, ch)
    \/ \E p \in Pipelines, ch \in DelChannels : retry_return(p, ch)
    \/ \E p \in Pipelines, ch \in DelChannels : delete_single(p, ch)
    \/ \E p \in Pipelines : pipeline_return(p)

\* the state of Init, with any ages of the messages
InitDel ==
    /\ now = 0
    /\ next_id = 1
    /\ message_cache = <<>>
    /\ user_activity = [k \in Humans \X Guilds |-> <<>>]
    /\ arrivals = [c \in Channels |-> <<>>]
    /\ hs = [h \in MsgIds |-> IdleHandler]
    /\ rp = IdleRepel
    /\ loc = IdleLocate
    /\ exists = DelMsgs
    /\ age \in AgeChoices
    /\ dp = [p \in Pipelines |-> [pc |-> "idle", candidates |-> <<>>, total |-> 0]]
    /\ dt = [k \in Pipelines \X DelChannels |-> IdleTask]

SpecDel == InitDel /\ [][NextDel]_vars

(***************************************************************************)
(* Properties of on_message and of the auto-repel handler, under Spec.     *)
(***************************************************************************)
\* a handler between the trigger (82) and the clear of line 94
ActingHandlers(a, g) ==
    {h \in MsgIds : /\ hs[h].pc \in {"timeout", "locate", "delete"}
                    /\ hs[h].author = a
                    /\ GuildOf(hs[h].channel) = g}

HandlerEnded(h) == hs[h].pc \in {"done", "crashed"}

\* C2: the window is reset when the trigger fires, so at most one auto-action
\* (suspension + deletion) is in progress for a user+scope at any time: a
\* further message of the user arriving while the first action awaits the
\* network starts no second action.
C2_AtMostOneAutoAction ==
    \A a \in Humans, g \in Guilds : Cardinality(ActingHandlers(a, g)) <= 1

\* C6: a failed suspension does not propagate: the auto-trigger handler
\* whose timeout call failed has still run the locator and the pipeline and
\* has still emitted the result summary when it ends.
C6_SuspensionFailureStillDeletes ==
    \A h \in MsgIds :
        (HandlerEnded(h) /\ hs[h].timeout \in {"forbidden", "http"})
            => (hs[h].located /\ hs[h].deleted /\ hs[h].summary)

\* C7: the handling of every trigger clears the user+scope window exactly
\* once, whatever the suspension, locate and delete calls answer.
C7_ResetExactlyOncePerTrigger ==
    \A h \in MsgIds :
        (HandlerEnded(h) /\ hs[h].triggered) => hs[h].resets = 1

\* C10: a channel's cache never holds more than max_cache_size entries, and
\* it holds the most recent arrivals of the channel in arrival order (the
\* oldest entry is the one evicted).
C10_CacheHoldsMostRecent ==
    /\ \A c \in Channels :
          (arrivals[c] # <<>>) <=> (CacheIndex(message_cache, c) # 0)
    /\ \A i \in 1..Len(message_cache) :
          /\ Len(message_cache[i].msgs) <= max_cache_size
          /\ message_cache[i].msgs =
                LastN(arrivals[message_cache[i].ch], max_cache_size)

\* a record arrived at a full cache: an entry has been evicted
C10_Evicted ==
    \E i \in 1..Len(message_cache) :
        /\ Len(arrivals[message_cache[i].ch]) > max_cache_size
        /\ Len(message_cache[i].msgs) = max_cache_size

\* the message that a step delivers to on_message in channel c, when the
\* step is one
Delivered(c) == arrivals'[c][Len(arrivals'[c])]

\* C11: after every tracker update of on_message every entry retained in
\* the window of the author and guild of the message has a timestamp
\* > now - 30s, now being the time of the update; a message whose own
\* timestamp is already outside the window is not retained.
C11_WindowAfterObserve ==
    [][\A c \in Channels :
          (Len(arrivals'[c]) > Len(arrivals[c])) =>
             LET rec == Delivered(c)
                 win == user_activity'[<<rec.author_id, GuildOf(c)>>]
             IN /\ \A i \in 1..Len(win) : win[i][2] > now' - WINDOW_SECONDS
                /\ (rec.timestamp <= now' - WINDOW_SECONDS)
                      => (\A i \in 1..Len(win) : win[i] # <<c, rec.timestamp>>)]_vars

\* a message was delivered thirty seconds after it was created, after a
\* younger message of the same guild: the window holds the younger one only
C11_StaleNotRetained ==
    /\ now = WINDOW_SECONDS
    /\ \E c, d \in 1..3 :
          \E i \in 1..Len(arrivals[c]), j \in 1..Len(arrivals[d]) :
             /\ arrivals[c][i].timestamp = 0
             /\ arrivals[d][j].timestamp > 0
             /\ arrivals[d][j].id < arrivals[c][i].id
    /\ user_activity[<<1, 1>>] # <<>>
    /\ \A i \in 1..Len(user_activity[<<1, 1>>]) : user_activity[<<1, 1>>][i][2] > 0

\* the channel ids that occur in a window
ChannelsIn(win) == {c \in Channels : \E i \in 1..Len(win) : win[i][1] = c}

RECURSIVE LatestReset(_)
LatestReset(h) ==
    IF h = 0 THEN 0 ELSE Max(hs[h].reset_at, LatestReset(h - 1))

\* the channels of guild g in which author a was observed from message id
\* since on, in the state a step leads to
ObservedSince(a, g, since) ==
    {d \in Channels :
        /\ GuildOf(d) = g
        /\ \E i \in 1..Len(arrivals'[d]) :
              /\ arrivals'[d][i].id >= since
              /\ arrivals'[d][i].author_id = a}

\* C13: after a trigger and its reset the next observations of the user
\* and guild fire the detector only if the observations made after the
\* reset cover at least 3 distinct channels; a single channel observed
\* right after the reset does not fire it.
C13_NoRetriggerAfterReset ==
    [][\A c \in 1..3 :
          (Len(arrivals'[c]) > Len(arrivals[c]) /\ LatestReset(MaxMsgs) > 0) =>
             LET rec == Delivered(c)
                 after == ObservedSince(rec.author_id, GuildOf(c),
                                        LatestReset(MaxMsgs))
             IN hs'[rec.id].triggered => (Cardinality(after) >= 3)]_vars

\* the window was cleared by the handler of a trigger, and the next message
\* of the user, in one channel, was observed and did not fire the detector
C13_ObservedAfterReset ==
    \E h \in MsgIds :
        /\ hs[h].triggered
        /\ hs[h].resets = 1
        /\ hs[h].reset_at \in MsgIds
        /\ next_id = hs[h].reset_at + 1
        /\ ~hs[hs[h].reset_at].triggered
        /\ Len(user_activity[<<1, 1>>]) = 1

\* the handler of a trigger whose suspension call has not answered yet
SuspensionPending(h) == hs[h].triggered /\ hs[h].timeout = "none"

\* the locate and delete chain of the handler has been started
ChainStarted(h) == hs[h].pc \in {"locate", "delete"} \/ hs[h].located

\* C17: the summary of an auto-repel is emitted only after both the
\* suspension and the locate and delete chain of that action have completed,
\* and the two run concurrently, with no order between them: the chain is
\* started without waiting for the suspension, so it is under way whenever
\* the suspension is still pending.
C17_SummaryAfterConcurrentPair ==
    \A h \in MsgIds :
        /\ hs[h].summary => (hs[h].timeout # "none" /\ hs[h].deleted)
        /\ SuspensionPending(h) => ChainStarted(h)

\* C20: a message whose author is flagged as a bot leaves the message cache
\* and every activity window as they are and starts no auto-action, in
\* whatever channel it is posted and whatever the windows hold.
C20_BotMessageChangesNothing ==
    [][\A h \in MsgIds :
          (hs'[h].bot /\ ~hs[h].bot) =>
             /\ message_cache' = message_cache
             /\ user_activity' = user_activity
             /\ ~hs'[h].triggered
             /\ hs'[h].pc = "done"]_vars

\* a bot message arrived when the window of the user held two channels, and
\* the window holds the same two entries after it
C20_BotAfterTwoChannels ==
    /\ next_id = 4
    /\ hs[3].bot
    /\ Len(user_activity[<<1, 1>>]) = 2
    /\ Cardinality(ChannelsIn(user_activity[<<1, 1>>])) = 2
    /\ \A h \in MsgIds : ~hs[h].triggered

(***************************************************************************)
(* Properties of get_user_messages, under SpecLoc.                         *)
(***************************************************************************)
\* the message ids of a sequence of (channel, message_id) candidates are
\* pairwise different
DistinctIds(cands) ==
    \A m, n \in 1..Len(cands) : (m # n) => (cands[m][2] # cands[n][2])

RECURSIVE Concat(_)
Concat(seqs) == IF seqs = <<>> THEN <<>> ELSE Head(seqs) \o Concat(Tail(seqs))

\* what the call has collected so far: messages, and the found lists of the
\* searches of the batch in progress
Collected ==
    loc.messages \o Concat([t \in 1..Len(loc.tasks) |-> loc.tasks[t].found])

\* C4: get_user_messages never returns more than limit entries, for every
\* cache content, every channel history and every limit >= 0.
C4_AtMostLimit ==
    (loc.pc = "returned") => (Len(loc.result) <= loc.limit)

\* C5: get_user_messages never collects or returns two candidates with the
\* same message id, across the cache phase and the searches of the channel
\* histories.
C5_NoDuplicateIds ==
    /\ DistinctIds(Collected)
    /\ (loc.pc = "returned") => DistinctIds(loc.result)

\* a call returned candidates of one channel from both phases: the search
\* of that channel's history went past the cached messages to an older one
C5_CacheThenHistory ==
    /\ loc.pc = "returned"
    /\ \E m \in 1..Len(loc.result), n \in 1..Len(loc.result) :
          /\ m <= loc.cached
          /\ n > loc.cached
          /\ loc.result[m][1] = loc.result[n][1]

\* C16: a failure of the history query of one channel (history not
\* readable, Forbidden, or a transient network error) only skips that
\* channel: get_user_messages does not fail, and it still returns the
\* candidates of the cache, followed by those of the other channels.
C16_HistoryFailureSkipsChannel ==
    /\ loc.pc # "raised"
    /\ (loc.pc = "returned") =>
          (TakeFirst(loc.result, loc.cached) =
             TakeFirst(CachedOfUser(message_cache, 1, loc.user), loc.cached))

\* the candidates the cache holds for the call in progress, in the order of
\* the cache, in the state a step leads to
CacheSupply == CachedOfUser(message_cache', 1, loc'.user)

\* C18: get_user_messages queries the channel histories only if its cache
\* phase gave fewer than limit candidates; when the cache alone holds limit
\* candidates of the user in the guild, no history is queried, the cache is
\* left as it is, and the result is the first limit of these candidates in
\* the order of the cache (by channel, then by arrival).
C18_CacheSufficesNoNetwork ==
    [][/\ (loc'.pc = "gather") => (Len(CacheSupply) < loc'.limit)
       /\ (loc'.pc = "returned" /\ Len(CacheSupply) >= loc'.limit)
             => (loc'.result = TakeFirst(CacheSupply, loc'.limit))
       /\ (loc' # loc) => (message_cache' = message_cache)]_vars

\* the candidate is a message that user a posted in a channel of guild g
PostedBy(cand, a, g) ==
    /\ GuildOf(cand[1]) = g
    /\ \E i \in 1..Len(arrivals[cand[1]]) :
          /\ arrivals[cand[1]][i].id = cand[2]
          /\ arrivals[cand[1]][i].author_id = a

\* C19: every candidate that get_user_messages(guild, user, limit) collects
\* or returns, and so every message handed to the pipeline, is a message
\* of that user in a channel of that guild, whatever other users posted and
\* whatever the user posted in other guilds.
C19_OnlyTargetsMessages ==
    /\ \A k \in 1..Len(Collected) : PostedBy(Collected[k], loc.user, 1)
    /\ (loc.pc = "returned") =>
          (\A k \in 1..Len(loc.result) : PostedBy(loc.result[k], loc.user, 1))

\* a call returned a message of the user from a channel in which another
\* user posted too, while the user has a message in the other guild
C19_OthersLeftAlone ==
    /\ loc.pc = "returned"
    /\ loc.result # <<>>
    /\ \E i \in 1..Len(arrivals[loc.result[1][1]]) :
          arrivals[loc.result[1][1]][i].author_id # loc.user
    /\ \E i \in 1..Len(arrivals[4]) : arrivals[4][i].author_id = loc.user

(***************************************************************************)
(* Properties of the deletion pipeline, under SpecDel.                     *)
(***************************************************************************)
Tasks == Pipelines \X DelChannels

\* what the delete_channel_messages calls of pipeline p have counted
Counted(p) == SumDeleted(p, DelChannels)

\* C1: delete_channel_messages terminates whatever the collaborators
\* answer: every pass through the bulk loop (a first call that is not
\* rate limited, or a retry, whatever it answers) leaves fewer messages in
\* recent, so the loop cannot go round for ever.
C1_BulkLoopShrinksRecent ==
    [][\A k \in Tasks :
          (/\ dt'[k] # dt[k]
           /\ \/ dt[k].pc = "retry"
              \/ dt[k].pc = "bulk" /\ dt'[k].pc # "retry")
          => Len(dt'[k].recent) < Len(dt[k].recent)]_vars

\* C3: channel.delete_messages is called at most twice for one chunk, and
\* a chunk handed to individual deletion is not offered to it again.
C3_AtMostTwoBulkCallsPerChunk ==
    \A k \in Tasks :
        /\ dt[k].attempts <= 2
        /\ (dt[k].pc \in {"bulk", "retry"})
              => (Range(dt[k].batch) \cap Range(dt[k].old) = {})

\* the recent messages among those handed to individual deletion
RecentInOld(t) == SelectSeq(t.old, IsRecent)

\* C14: every channel.delete_messages call carries between 2 and 100
\* (BulkChunk) messages, all of them recent; every old message and a single
\* leftover recent message go to individual deletion only; and when every
\* bulk call succeeded, individual deletion gets the old messages and at
\* most one leftover recent message, nothing else.
C14_BulkCallsAndLeftovers ==
    \A k \in Tasks :
        LET t == dt[k]
        IN /\ (t.pc \in {"bulk", "retry"}) =>
                 /\ Len(t.batch) >= 2
                 /\ Len(t.batch) <= BulkChunk
                 /\ \A m \in Range(t.batch) : IsRecent(m)
           /\ (t.pc = "single") =>
                 /\ \A m \in Range(OldOf(t.valid_messages)) : m \in Range(t.old)
                 /\ ~t.bulk_failed =>
                       /\ Len(RecentInOld(t)) <= 1
                       /\ t.old = OldOf(t.valid_messages) \o RecentInOld(t)
                       /\ (t.j = 0) =>
                             (t.deleted + Len(t.old) = Len(t.valid_messages))

\* every bulk call of the channel succeeded; an old message and the one
\* recent message left over are deleted individually
C14_LeftoverAfterBulk ==
    \E k \in Tasks :
        /\ dt[k].pc = "single"
        /\ ~dt[k].bulk_failed
        /\ dt[k].deleted >= 2
        /\ Len(RecentInOld(dt[k])) = 1
        /\ Len(dt[k].old) = 2

\* how many times message m occurs in the sequence s
Occurrences(s, m) == Cardinality({i \in 1..Len(s) : s[i] = m})

\* C15: within one delete_channel_messages call every fetched message ends
\* in exactly one disposition, whatever the bulk calls answer: it belongs to
\* a bulk call that succeeded and is not submitted for individual deletion,
\* or it is submitted for individual deletion exactly once.
C15_ExactlyOneDisposition ==
    \A k \in Tasks :
        (dt[k].pc = "single") =>
           \A m \in Range(dt[k].valid_messages) :
              \/ /\ m \in Range(dt[k].bulked)
                 /\ Occurrences(dt[k].old, m) = 0
              \/ /\ m \notin Range(dt[k].bulked)
                 /\ Occurrences(dt[k].old, m) = 1

C9_CountsAtMostRemoved ==
    Counted(1) + Counted(2) <= Cardinality(DelMsgs \ exists)

====
